---- MODULE Spec2Model ----
(***************************************************************************)
(* A model of agentslack/api.py: the tool dispatcher (call_tool), the      *)
(* read-state tracker (only_show_new_messages, _update_agent_read_messages)*)
(* and the channel membership resolver (update_channels).                  *)
(*                                                                         *)
(* Time is counted in ticks; TicksPerSec ticks make one whole second, so a *)
(* backend timestamp "s.f" is the tick s * TicksPerSec + f.                *)
(***************************************************************************)
EXTENDS Integers, Sequences, FiniteSets, TLC

VARIABLES
    now,            \* the wall clock (time.time() and the backend's ts), in ticks
    slack,          \* the chat backend: per channel id, open / members / messages
    registered,     \* registry: names of the channels registered by create_channel
    read_messages,  \* agent.read_messages: per agent, per channel id, the ledger
    channels,       \* agent.channels: per agent, the resolved channel list
    exported,       \* per agent, the ledger last written by _export_agent_logs
    export_failed,  \* whether an export has failed in this run
    last,           \* the last call_tool request and what it did and returned
    steps           \* how many requests and backend events have happened

vars == <<now, slack, registered, read_messages, channels, exported, export_failed,
          last, steps>>

---------------------------------------------------------------------------
(* Bounds of the model *)

\* ticks per whole second: what ts.split('.')[0] cuts away
TicksPerSec == 2
\* registration time of world W1, in ticks
StartW1 == 2
\* registration time of world W2, in ticks
StartW2 == 5
\* how many requests and backend events a run has
MaxSteps == 3

---------------------------------------------------------------------------
(* The registry: worlds, agents, humans (registered before the run) *)

Worlds == {"W1", "W2"}
Agents == {"alice", "bob", "carol"}
Humans == {"hana"}
NoName == "None"
NoChannel == "none"

world_name(a) == IF a = "carol" THEN "W2" ELSE "W1"

start_datetime(w) == IF w = "W1" THEN StartW1 ELSE StartW2

slack_id(a) ==
    CASE a = "alice" -> "U1"
      [] a = "bob" -> "U2"
      [] a = "carol" -> "U3"

slack_member_id(h) == "UH"

AgentIds == {slack_id(a) : a \in Agents}
HumanIds == {slack_member_id(h) : h \in Humans}
Ids == AgentIds \cup HumanIds

agent_exists(n) == n \in Agents
human_exists(n) == n \in Humans
get_all_agent_names == Agents
get_human_names == Humans
get_humans == Humans
get_always_add_users == HumanIds

\* reverse lookups; an identity that is not found has no name
get_agent_name_from_id(id) ==
    IF \E a \in Agents : slack_id(a) = id
    THEN CHOOSE a \in Agents : slack_id(a) = id
    ELSE NoName

get_human_name_from_id(id) ==
    IF \E h \in Humans : slack_member_id(h) = id
    THEN CHOOSE h \in Humans : slack_member_id(h) = id
    ELSE NoName

get_world_starttime_of_agent(a) == start_datetime(world_name(a))

---------------------------------------------------------------------------
(* The chat backend *)

\* the direct conversations the backend has or agrees to open: alice-bob
\* (one world), alice-carol (two worlds), alice-hana (a human)
DMIds == {"D_ab", "D_ac", "D_ah"}
NamedIds == {"C_general", "C_dev", "C_dev2"}
ChannelIds == DMIds \cup NamedIds

\* the order in which the backend lists conversations
ChannelOrder == <<"D_ab", "D_ac", "D_ah", "C_general", "C_dev2", "C_dev">>
\* the order in which the backend lists members
IdOrder == <<"U1", "U2", "U3", "UH">>

IsDM(c) == c \in DMIds

\* a direct conversation is identified by its member set
DMMembers(c) ==
    CASE c = "D_ab" -> {"U1", "U2", "UH"}
      [] c = "D_ac" -> {"U1", "U3", "UH"}
      [] c = "D_ah" -> {"U1", "UH"}

ChannelNames == {"general", "dev"}
\* the channel the backend creates, or has created, under a name
NamedId(n) == IF n = "general" THEN "C_general" ELSE "C_dev"
\* the display name a listing gives a conversation; display names are no
\* keys: "C_dev2", made outside the server, is displayed as "dev" too
BackendName(c) ==
    CASE c = "C_general" -> "general"
      [] c = "C_dev" -> "dev"
      [] c = "C_dev2" -> "dev"
      [] c = "D_ab" -> "mpdm-alice--bob-1"
      [] OTHER -> "dm"

\* direct conversations that the backend's channel listing reports as well
DualListed == {"D_ab"}

Texts == {"hi"}

SeqToSet(s) == {s[i] : i \in 1..Len(s)}



\* what the backend has: every conversation closed and empty but the
\* workspace channel "general" (bob is not in it) and the direct
\* conversation of alice and carol, which carry the history of the
\* workspace, the direct conversation of alice and bob, opened with
\* nothing written in it yet, and a channel of the humans displayed as "dev"
RawMessage(user, text, ts) == [user |-> user, text |-> text, ts |-> ts]

SlackInit ==
    [c \in ChannelIds |->
        CASE c = "C_general" ->
                [open |-> TRUE, members |-> Ids \ {"U2"},
                 msgs |-> <<RawMessage("UH", "hi", StartW2)>>]
          [] c = "D_ac" ->
                [open |-> TRUE, members |-> DMMembers(c),
                 msgs |-> <<RawMessage("U1", "hi", StartW1),
                            RawMessage("U1", "hi", StartW1 + 1)>>]
          [] c = "D_ab" ->
                [open |-> TRUE, members |-> DMMembers(c), msgs |-> <<>>]
          [] c = "D_ah" ->
                [open |-> FALSE, members |-> DMMembers(c), msgs |-> <<>>]
          [] c = "C_dev2" ->
                [open |-> TRUE, members |-> HumanIds, msgs |-> <<>>]
          [] OTHER -> [open |-> FALSE, members |-> {}, msgs |-> <<>>]]

\* slack_client.open_conversation(user_ids): the conversation of the caller,
\* the named users and the always-added users, if the backend opens one
ConversationMembers(caller, user_ids) ==
    {slack_id(caller)} \cup user_ids \cup get_always_add_users

CanOpen(caller, user_ids) ==
    \E c \in DMIds : DMMembers(c) = ConversationMembers(caller, user_ids)

open_conversation(caller, user_ids) ==
    CHOOSE c \in DMIds : DMMembers(c) = ConversationMembers(caller, user_ids)

Opened(sl, c) == [sl EXCEPT ![c].open = TRUE]

\* slack_client.send_messsage(message, target_channel_id): the backend stamps
\* the message with its own clock
send_messsage(sl, user, message, target_channel_id, ts) ==
    [sl EXCEPT ![target_channel_id].msgs = Append(@, RawMessage(user, message, ts))]

\* slack_client.get_channel_members(channel_id)['members']
get_channel_members(sl, c) == SelectSeq(IdOrder, LAMBDA u : u \in sl[c].members)

\* slack_client.check_ongoing_dms()['channels']
check_ongoing_dms(agent, sl) ==
    SelectSeq(ChannelOrder,
              LAMBDA c : IsDM(c) /\ sl[c].open /\ slack_id(agent) \in sl[c].members)

\* slack_client.list_channels()['channels']
list_channels(agent, sl) ==
    SelectSeq(ChannelOrder,
              LAMBDA c : /\ sl[c].open
                         /\ \/ ~IsDM(c)
                            \/ c \in DualListed /\ slack_id(agent) \in sl[c].members)

\* slack_client.read(channel_id)['messages']: a conversation the reader is
\* not in yields no messages
read(sl, agent, c) ==
    IF sl[c].open /\ slack_id(agent) \in sl[c].members THEN sl[c].msgs ELSE <<>>

\* slack_client.read(channel_id).get('error'): the backend refuses the read
\* of a conversation the reader is not in
read_error(sl, agent, c) == ~(sl[c].open /\ slack_id(agent) \in sl[c].members)

---------------------------------------------------------------------------
(* Messages *)

Message(message, channel_id, user_id, timestamp, agent_name) ==
    [message |-> message, channel_id |-> channel_id, user_id |-> user_id,
     timestamp |-> timestamp, agent_name |-> agent_name]

\* time.time(): a float
TimeTime(t) == <<"float", t>>
\* message['ts']: the backend's string "seconds.fraction"
RawTs(ts) == <<"str", ts \div TicksPerSec, ts % TicksPerSec>>
\* mutant: the fraction is kept
SplitTs_keeping_fraction(ts) == <<"str", ts \div TicksPerSec, ts % TicksPerSec>>

\* message['ts'].split('.')[0]: the string of the whole seconds
SplitTs(ts) == <<"str", ts \div TicksPerSec>>
\* datetime.fromtimestamp(float(msg['ts'])).timestamp()
FloatOfTs(ts) == ts

---------------------------------------------------------------------------
(* Read-state tracker *)

\* mutant: the new messages are returned newest first
only_show_new_messages_reversed(rm, agent_name, channel_id, messages) ==
    LET previous_messages == rm[agent_name][channel_id]
        new_messages == SelectSeq(messages,
                                  LAMBDA msg : msg \notin SeqToSet(previous_messages))
    IN [i \in 1..Len(new_messages) |-> new_messages[Len(new_messages) + 1 - i]]

only_show_new_messages(rm, agent_name, channel_id, messages) ==
    LET previous_messages == rm[agent_name][channel_id]
    IN SelectSeq(messages, LAMBDA msg : msg \notin SeqToSet(previous_messages))

\* mutant: the new messages are computed and never appended
update_agent_read_messages_lost(rm, agent_name, channel_id, messages) == rm

\* mutant: the ledger is overwritten with the new messages
update_agent_read_messages_replace(rm, agent_name, channel_id, messages) ==
    [rm EXCEPT ![agent_name][channel_id] = messages]

\* mutant: one ledger shared by all agents
update_agent_read_messages_shared(rm, agent_name, channel_id, messages) ==
    [a \in DOMAIN rm |->
        [rm[a] EXCEPT ![channel_id] =
            @ \o SelectSeq(messages, LAMBDA message : message \notin SeqToSet(@))]]

update_agent_read_messages(rm, agent_name, channel_id, messages) ==
    LET old == rm[agent_name][channel_id]
    IN [rm EXCEPT ![agent_name][channel_id] =
            old \o SelectSeq(messages, LAMBDA message : message \notin SeqToSet(old))]

---------------------------------------------------------------------------
(* Channel membership resolver *)

RECURSIVE Join(_)
Join(s) ==
    IF Len(s) = 0 THEN ""
    ELSE IF Len(s) = 1 THEN s[1]
    ELSE s[1] \o "," \o Join(Tail(s))

Channel(id, name) == [slack_id |-> id, name |-> name]

RECURSIVE WalkDMs(_, _, _)
WalkDMs(dms, sl, acc) ==
    IF dms = <<>> THEN acc
    ELSE LET c == Head(dms)
             channel_members ==
                 SelectSeq(get_channel_members(sl, c),
                           LAMBDA member : member \notin get_always_add_users)
         IN IF c \notin acc.existing_channel_ids
            THEN WalkDMs(Tail(dms), sl,
                         [all_channels |-> Append(acc.all_channels,
                                                  Channel(c, Join(channel_members))),
                          existing_channel_ids |-> acc.existing_channel_ids \cup {c}])
            ELSE WalkDMs(Tail(dms), sl, acc)

RECURSIVE WalkChannels(_, _)
WalkChannels(chs, acc) ==
    IF chs = <<>> THEN acc
    ELSE LET c == Head(chs)
         IN IF c \notin acc.existing_channel_ids
            THEN WalkChannels(Tail(chs),
                              [all_channels |-> Append(acc.all_channels,
                                                       Channel(c, BackendName(c))),
                               existing_channel_ids |-> acc.existing_channel_ids \cup {c}])
            ELSE WalkChannels(Tail(chs), acc)

\* mutant: no set of seen ids is kept
update_channels_unseen(agent_name, sl) ==
    LET dms == check_ongoing_dms(agent_name, sl)
        chs == list_channels(agent_name, sl)
    IN [i \in 1..Len(dms) |->
           Channel(dms[i],
                   Join(SelectSeq(get_channel_members(sl, dms[i]),
                                  LAMBDA member : member \notin get_always_add_users)))]
       \o [i \in 1..Len(chs) |-> Channel(chs[i], BackendName(chs[i]))]

\* mutant: the seen-ids set starts from the agent's current list, so only
\* channels not yet in the list are collected
update_channels_incremental(agent_name, sl) ==
    WalkChannels(list_channels(agent_name, sl),
                 WalkDMs(check_ongoing_dms(agent_name, sl), sl,
                         [all_channels |-> <<>>,
                          existing_channel_ids |->
                              {channels[agent_name][i].slack_id :
                                 i \in 1..Len(channels[agent_name])}])
                ).all_channels

update_channels(agent_name, sl) ==
    WalkChannels(list_channels(agent_name, sl),
                 WalkDMs(check_ongoing_dms(agent_name, sl), sl,
                         [all_channels |-> <<>>, existing_channel_ids |-> {}])
                ).all_channels


---------------------------------------------------------------------------
(* The record of the last request: what call_tool was asked, what it did   *)
(* at the backend and what it returned                                     *)

NoOp ==
    [tool |-> "none", caller |-> "none", arg |-> "none", text |-> "none",
     result |-> "none",
     missing |-> {}, names |-> {}, channel |-> NoChannel, messages |-> <<>>,
     all_new_messages |-> <<>>, raw |-> {}, reads |-> {}, sent |-> {},
     refreshed |-> FALSE, empty_read |-> FALSE]

Request(tool, caller, arg) ==
    [NoOp EXCEPT !.tool = tool, !.caller = caller, !.arg = arg]

\* the run is still followed
Live == steps < MaxSteps

\* one more request or backend event
Step == Live /\ steps' = steps + 1

\* the names of the requests that name no agent, no human and no channel
Nonexistent == {"ghost", "nobody", "nochan"}

\* the request ends with `result` (a string payload listing `names`, or an
\* exception) before anything was changed. Nothing but `last` differs
\* from the state before, and no request reads `last`, so what follows such
\* a request is what follows the state before it: the run is followed no
\* further.
Ends(tool, caller, args, result, names) ==
    /\ Live
    /\ steps' = MaxSteps
    /\ last' = [Request(tool, caller, "none") EXCEPT
                  !.missing = ({caller} \cup args) \cap Nonexistent,
                  !.result = result, !.names = names]
    /\ UNCHANGED <<now, slack, registered, read_messages, channels, exported,
                   export_failed>>

\* the same, the request's second parameter kept in the record
EndsArg(tool, caller, arg, result, names) ==
    /\ Live
    /\ steps' = MaxSteps
    /\ last' = [Request(tool, caller, arg) EXCEPT
                  !.missing = {caller, arg} \cap Nonexistent,
                  !.result = result, !.names = names]
    /\ UNCHANGED <<now, slack, registered, read_messages, channels, exported,
                   export_failed>>

\* return_agent_doesnt_exist_error
return_agent_doesnt_exist_error(tool, caller, args, sender) ==
    Ends(tool, caller, args,
         IF sender THEN "sender does not exist" ELSE "agent does not exist",
         get_all_agent_names)

\* a backend record together with the channel it was read from
Delivered(c, m) == [channel |-> c, user |-> m.user, text |-> m.text, ts |-> m.ts]

\* _export_agent_logs: writes the agent's whole ledger, or fails
export_agent_logs(exp, rm, agent_name, export_ok) ==
    IF export_ok THEN [exp EXCEPT ![agent_name] = rm[agent_name]] ELSE exp

Init ==
    /\ now = StartW2 + 1
    /\ slack = SlackInit
    /\ registered = {}
    /\ read_messages = [a \in Agents |-> [c \in ChannelIds |-> <<>>]]
    /\ channels = [a \in Agents |-> <<>>]
    /\ exported = [a \in Agents |-> [c \in ChannelIds |-> <<>>]]
    /\ export_failed = FALSE
    /\ last = NoOp
    /\ steps = 0

---------------------------------------------------------------------------
(* call_tool: one action per branch *)

CallerNames == Agents \cup {"ghost"}
RecipientNames == Agents \cup {"ghost", "hana"}
HumanNames == Humans \cup {"nobody"}
ChannelNameInputs == {"general", "dev", "nochan"}
ToolNames == {"send_direct_message", "send_message_to_channel", "read_dm",
              "check_new_messages", "read_channel", "list_channels",
              "create_channel", "get_human_info", "send_message_to_human",
              "add_member_to_channel"}

\* the keys of self.tools, a name with a branch that is no key, the display
\* name of the list_channels tool, and a name nothing knows
ToolNameInputs ==
    ToolNames \cup {"check_ongoing_dms", "list_all_my_channels", "bogus"}

\* mutant: the chain has no branch for get_human_info
Branches_without_get_human_info ==
    <<"send_direct_message", "send_message_to_channel", "list_channels",
      "read_channel", "read_dm", "check_ongoing_dms", "check_new_messages",
      "send_message_to_human", "create_channel", "add_member_to_channel">>

\* the if/elif chain of call_tool, in its order
Branches ==
    <<"send_direct_message", "send_message_to_channel", "list_channels",
      "read_channel", "read_dm", "check_ongoing_dms", "check_new_messages",
      "get_human_info", "send_message_to_human", "create_channel",
      "add_member_to_channel">>

\* where call_tool goes with a tool name: the 404 for a name that is no key
\* of self.tools, else the branch of that name, else the raise after the chain
Dispatch(tool_name) ==
    IF tool_name \notin ToolNames THEN "HTTP 404"
    ELSE IF tool_name \in SeqToSet(Branches) THEN tool_name
    ELSE "HTTP 400 Tool execution failed"

\* the request is handled by the branch of its tool name
Handled(tool_name) == Dispatch(tool_name) = tool_name

\* registry.get_channel(name): only a registered channel is found
channel_registered(reg, channel_name) == channel_name \in reg

\* mutant: the sender's name is not recorded
SentMessage_unnamed(message, channel_id, user_id, t, agent_name) ==
    Message(message, channel_id, user_id, TimeTime(t), NoName)

\* the message a send records in the sender's own ledger
SentMessage(message, channel_id, user_id, t, agent_name) ==
    Message(message, channel_id, user_id, TimeTime(t), agent_name)

\* the backend posts a message only for a member of the conversation
Posted(sl, agent_name, message, channel_id, ts) ==
    IF sl[channel_id].open /\ slack_id(agent_name) \in sl[channel_id].members
    THEN send_messsage(sl, slack_id(agent_name), message, channel_id, ts)
    ELSE sl

\* the outcomes of an export: it succeeds, or fails (once in a run)
ExportOutcomes == IF export_failed THEN {TRUE} ELSE BOOLEAN

\* _update_agent_read_messages followed by its export: the request goes on
\* to end as `done`, or ends with the export's exception as `failed`
Recorded(rm, agent_name, done, failed) ==
    /\ Step
    /\ read_messages' = rm
    /\ \E export_ok \in ExportOutcomes :
         /\ export_failed' = (export_failed \/ ~export_ok)
         /\ exported' = export_agent_logs(exported, rm, agent_name, export_ok)
         /\ last' = IF export_ok THEN [done EXCEPT !.result = "ok"]
                    ELSE [failed EXCEPT !.result = "exception"]

send_direct_message(your_name, recipient_name, message) ==
    LET tool == "send_direct_message" IN
    /\ Live
    /\ IF ~agent_exists(recipient_name)
       THEN IF human_exists(recipient_name)
            THEN Ends(tool, your_name, {recipient_name}, "use send_message_to_human", {})
            ELSE return_agent_doesnt_exist_error(tool, your_name, {recipient_name}, FALSE)
       ELSE IF ~agent_exists(your_name)
       THEN return_agent_doesnt_exist_error(tool, your_name, {recipient_name}, FALSE)
       ELSE
         \/ \* open_conversation answers ok = false
            Ends(tool, your_name, {recipient_name}, "HTTP 400", {})
         \/ /\ CanOpen(your_name, {slack_id(recipient_name)})
            /\ LET channel_id == open_conversation(your_name, {slack_id(recipient_name)})
                   sl == Posted(Opened(slack, channel_id), your_name, message,
                                channel_id, now)
                   rm == update_agent_read_messages(read_messages, your_name, channel_id,
                             <<SentMessage(message, channel_id, slack_id(your_name),
                                           now, your_name)>>)
               IN /\ slack' = sl
                  /\ now' = now + 1
                  /\ channels' = [channels EXCEPT
                                    ![your_name] = update_channels(your_name, sl)]
                  /\ LET req == [Request(tool, your_name, recipient_name) EXCEPT
                                    !.text = message,
                                    !.channel = channel_id, !.sent = {channel_id},
                                    !.refreshed = TRUE]
                     IN Recorded(rm, your_name, req, req)
                  /\ UNCHANGED registered

ChannelNamesOf(chs) == {chs[i].name : i \in 1..Len(chs)}
ChannelIdsOf(chs) == [i \in 1..Len(chs) |-> chs[i].slack_id]

\* mutant: the channel list is refreshed before the guidance is returned
channel_unknown_refreshing(your_name, channel_name, channel_names) ==
    /\ Live
    /\ steps' = MaxSteps
    /\ channels' = [channels EXCEPT ![your_name] = update_channels(your_name, slack)]
    /\ last' = [Request("send_message_to_channel", your_name, channel_name) EXCEPT
                  !.missing = {your_name, channel_name} \cap Nonexistent,
                  !.result = "channel doesn't exist", !.names = channel_names]
    /\ UNCHANGED <<now, slack, registered, read_messages, exported, export_failed>>

\* the channel is not among the sender's channel names: the guidance string
\* with the sender's channel names
channel_unknown(your_name, channel_name, channel_names) ==
    EndsArg("send_message_to_channel", your_name, channel_name,
            "channel doesn't exist", channel_names)

send_message_to_channel(your_name, channel_name, message) ==
    LET tool == "send_message_to_channel" IN
    /\ Live
    /\ IF ~agent_exists(your_name)
       THEN return_agent_doesnt_exist_error(tool, your_name, {channel_name}, FALSE)
       ELSE LET channel_names == ChannelNamesOf(channels[your_name]) IN
         IF channel_name \notin channel_names
         THEN channel_unknown(your_name, channel_name, channel_names)
         ELSE IF ~channel_registered(registered, channel_name)
         THEN \* registry.get_channel(channel_name) finds nothing
              EndsArg(tool, your_name, channel_name, "exception", {})
         ELSE
            /\ LET channel_id == NamedId(channel_name)
                   sl == Posted(slack, your_name, message, channel_id, now)
                   rm == update_agent_read_messages(read_messages, your_name, channel_id,
                             <<SentMessage(message, channel_id, your_name,
                                           now, your_name)>>)
               IN /\ slack' = sl
                  /\ now' = now + 1
                  /\ LET req == [Request(tool, your_name, channel_name) EXCEPT
                                    !.text = message,
                                    !.channel = channel_id, !.sent = {channel_id}]
                     IN Recorded(rm, your_name, [req EXCEPT !.refreshed = TRUE], req)
                  \* update_channels runs only when the export did not fail
                  /\ channels' = IF last'.result = "ok"
                                 THEN [channels EXCEPT
                                         ![your_name] = update_channels(your_name, sl)]
                                 ELSE channels
                  /\ UNCHANGED registered

send_message_to_human(your_name, human_name, message) ==
    LET tool == "send_message_to_human" IN
    /\ Live
    /\ IF ~agent_exists(your_name)
       THEN \* registry.get_agent(your_name) finds nothing
            Ends(tool, your_name, {human_name}, "exception", {})
       ELSE IF ~human_exists(human_name)
       THEN \* registry.get_human(human_name) finds nothing, before the check
            Ends(tool, your_name, {human_name}, "exception", {})
       ELSE
         \/ Ends(tool, your_name, {human_name}, "HTTP 400", {})
         \/ /\ CanOpen(your_name, {slack_member_id(human_name)})
            /\ LET channel_id == open_conversation(your_name, {slack_member_id(human_name)})
                   sl == Posted(Opened(slack, channel_id), your_name, message,
                                channel_id, now)
                   rm == update_agent_read_messages(read_messages, your_name, channel_id,
                             <<SentMessage(message, channel_id, slack_id(your_name),
                                           now, your_name)>>)
               IN /\ slack' = sl
                  /\ now' = now + 1
                  /\ LET req == [Request(tool, your_name, human_name) EXCEPT
                                    !.text = message,
                                    !.channel = channel_id, !.sent = {channel_id}]
                     IN Recorded(rm, your_name, req, req)
                  /\ UNCHANGED <<registered, channels>>

\* the sender name read_channel and read_dm give a raw record
resolved_name(user) ==
    IF user \in get_all_agent_names
    THEN get_agent_name_from_id(user)
    ELSE get_human_name_from_id(user)

read_channel(your_name, channel_name) ==
    LET tool == "read_channel" IN
    /\ Live
    /\ IF ~agent_exists(your_name)
       THEN return_agent_doesnt_exist_error(tool, your_name, {channel_name}, FALSE)
       ELSE IF ~channel_registered(registered, channel_name)
       THEN \* registry.get_channel(channel_name) finds nothing
            Ends(tool, your_name, {channel_name}, "exception", {})
       ELSE LET channel_id == NamedId(channel_name)
                response == read(slack, your_name, channel_id)
                req == [Request(tool, your_name, channel_name) EXCEPT
                          !.channel = channel_id, !.reads = {channel_id},
                          !.empty_read = (Len(response) = 0)]
            IN IF Len(response) = 0
               THEN /\ steps' = MaxSteps
                    /\ last' = [req EXCEPT !.result = "not a member"]
                    /\ UNCHANGED <<now, slack, registered, read_messages, channels,
                                   exported, export_failed>>
               ELSE LET world_start_datetime == start_datetime(world_name(your_name))
                        kept == SelectSeq(response,
                                    LAMBDA msg : FloatOfTs(msg.ts) > world_start_datetime)
                        messages == [i \in 1..Len(kept) |->
                                        Message(kept[i].text, channel_id, kept[i].user,
                                                RawTs(kept[i].ts),
                                                resolved_name(kept[i].user))]
                        rm == update_agent_read_messages(read_messages, your_name,
                                                         channel_id, messages)
                        raw == {Delivered(channel_id, kept[i]) : i \in 1..Len(kept)}
                    IN /\ Recorded(rm, your_name,
                                   [req EXCEPT !.messages = messages, !.raw = raw],
                                   [req EXCEPT !.raw = raw])
                       /\ UNCHANGED <<now, slack, registered, channels>>

\* the conversation read_dm picks: the first ongoing one of the right size
\* that holds both the sender and the receiver
dm_candidates(your_name, sender_name, sl) ==
    LET total_users == Cardinality(get_humans) + 2
    IN SelectSeq(check_ongoing_dms(your_name, sl),
                 LAMBDA c : LET members == get_channel_members(sl, c)
                            IN /\ Len(members) = total_users
                               /\ slack_id(sender_name) \in SeqToSet(members)
                               /\ slack_id(your_name) \in SeqToSet(members))

\* the world start read_dm filters with
read_dm_world_start(your_name, sender_name) == get_world_starttime_of_agent(sender_name)

read_dm(your_name, sender_name) ==
    LET tool == "read_dm" IN
    /\ Live
    /\ IF ~agent_exists(your_name)
       THEN return_agent_doesnt_exist_error(tool, your_name, {sender_name}, FALSE)
       ELSE IF ~agent_exists(sender_name)
       THEN return_agent_doesnt_exist_error(tool, your_name, {sender_name}, TRUE)
       ELSE LET found == dm_candidates(your_name, sender_name, slack) IN
         IF found = <<>>
         THEN \* channel_id is never bound
              Ends(tool, your_name, {sender_name}, "exception", {})
         ELSE LET channel_id == Head(found)
                  response == read(slack, your_name, channel_id)
                  world_start_datetime == read_dm_world_start(your_name, sender_name)
                  kept == SelectSeq(response,
                              LAMBDA msg : FloatOfTs(msg.ts) >= world_start_datetime)
                  messages == [i \in 1..Len(kept) |->
                                  Message(kept[i].text, channel_id, kept[i].user,
                                          SplitTs(kept[i].ts),
                                          resolved_name(kept[i].user))]
                  rm == update_agent_read_messages(read_messages, your_name,
                                                   channel_id, messages)
                  raw == {Delivered(channel_id, kept[i]) : i \in 1..Len(kept)}
                  req == [Request(tool, your_name, sender_name) EXCEPT
                            !.channel = channel_id, !.reads = {channel_id},
                            !.empty_read = (Len(response) = 0)]
              IN IF read_error(slack, your_name, channel_id)
                 THEN \* the backend's error is returned as it is
                      Ends(tool, your_name, {sender_name}, "backend error", {})
                 ELSE
                 /\ Recorded(rm, your_name,
                             [req EXCEPT !.messages = messages, !.raw = raw],
                             [req EXCEPT !.raw = raw])
                 /\ UNCHANGED <<now, slack, registered, channels>>

\* mutant: the membership is not verified
channel_ids_unchecked(agent_name, channel_ids, sl) == channel_ids

\* the channels of the agent's list that the backend says the agent is in
channel_ids_with_agent(agent_name, channel_ids, sl) ==
    SelectSeq(channel_ids,
              LAMBDA c : slack_id(agent_name) \in SeqToSet(get_channel_members(sl, c)))

\* whether check_new_messages skips a channel: nothing is left after the
\* world filter
skips_channel(msgs_after, new_messages) == Len(msgs_after) = 0

\* one round of the loop of check_new_messages: the channel is read, its
\* messages are filtered and converted, the new ones are returned and
\* recorded; the export of update number fail_at fails (0: none does)
check_channel(agent_name, channel_id, fail_at, st) ==
    LET messages == read(slack, agent_name, channel_id)
        world_start_datetime == start_datetime(world_name(agent_name))
        kept == SelectSeq(messages,
                    LAMBDA msg : FloatOfTs(msg.ts) >= world_start_datetime)
        msgs_after == [i \in 1..Len(kept) |->
                        Message(kept[i].text, channel_id, kept[i].user,
                                SplitTs(kept[i].ts),
                                get_agent_name_from_id(kept[i].user))]
        new_messages == only_show_new_messages(st.rm, agent_name, channel_id,
                                               msgs_after)
        rm == update_agent_read_messages(st.rm, agent_name, channel_id,
                                         new_messages)
        fails == st.updates + 1 = fail_at
    IN IF skips_channel(msgs_after, new_messages)
       THEN [st EXCEPT !.reads = @ \cup {channel_id}]
       ELSE [rm |-> rm,
             exp |-> export_agent_logs(st.exp, rm, agent_name, ~fails),
             all_new_messages |-> Append(st.all_new_messages, new_messages),
             raw |-> st.raw \cup
                     {Delivered(channel_id, kept[i]) :
                        i \in {j \in 1..Len(kept) :
                                 msgs_after[j] \in SeqToSet(new_messages)}},
             reads |-> st.reads \cup {channel_id},
             updates |-> st.updates + 1,
             failed |-> fails]

\* the loop of check_new_messages over channel_ids_with_agent; it ends with
\* the exception of a failed export
RECURSIVE CheckLoop(_, _, _, _)
CheckLoop(agent_name, ids, fail_at, st) ==
    IF ids = <<>> \/ st.failed THEN st
    ELSE CHOOSE done \in
            {CheckLoop(agent_name, Tail(ids), fail_at, next) :
               next \in {check_channel(agent_name, Head(ids), fail_at, st)}} : TRUE

\* check_new_messages for a registered agent: the refresh of the channel
\* list, the loop over the channels the agent is in, the answer
check_new_messages_run(your_name) ==
    \E chs \in {update_channels(your_name, slack)} :
    \E ids \in {channel_ids_with_agent(your_name, ChannelIdsOf(chs), slack)} :
    \E fail_at \in IF export_failed THEN {0} ELSE 0..Len(ids) :
    \E st \in {CheckLoop(your_name, ids, fail_at,
                         [rm |-> read_messages, exp |-> exported,
                          all_new_messages |-> <<>>, raw |-> {}, reads |-> {},
                          updates |-> 0, failed |-> FALSE])} :
         LET req == [Request("check_new_messages", your_name, "none") EXCEPT
                       !.refreshed = TRUE, !.reads = st.reads, !.raw = st.raw]
         IN /\ fail_at > 0 => st.failed
            /\ channels' = [channels EXCEPT ![your_name] = chs]
            /\ read_messages' = st.rm
            /\ exported' = st.exp
            /\ export_failed' = (export_failed \/ st.failed)
            /\ last' = IF st.failed
                       THEN [req EXCEPT !.result = "exception"]
                       ELSE [req EXCEPT !.result = "ok",
                                        !.all_new_messages = st.all_new_messages]
            /\ UNCHANGED <<now, slack, registered>>

check_new_messages(your_name) ==
    LET tool == "check_new_messages" IN
    /\ Live
    /\ IF ~agent_exists(your_name)
       THEN return_agent_doesnt_exist_error(tool, your_name, {}, FALSE)
       ELSE /\ Step
            /\ check_new_messages_run(your_name)

list_channels_tool(your_name) ==
    LET tool == "list_channels" IN
    /\ Live
    /\ IF ~agent_exists(your_name)
       THEN return_agent_doesnt_exist_error(tool, your_name, {}, FALSE)
       ELSE Ends(tool, your_name, {}, "ok",
                 {BackendName(c) : c \in SeqToSet(list_channels(your_name, slack))})

get_human_info ==
    Ends("get_human_info", "none", {}, "ok", get_humans)

\* str.lower() of a channel name
Lower(name) == IF name = "Dev" THEN "dev" ELSE name

create_channel(your_name, channel_name) ==
    LET tool == "create_channel"
        name == Lower(channel_name)
    IN
    /\ Live
    /\ IF your_name \notin get_all_agent_names
       THEN Ends(tool, your_name, {channel_name}, "your name is incorrect",
                 get_all_agent_names)
       ELSE IF slack[NamedId(name)].open
       THEN \* name taken: the response has no 'channel'
            Ends(tool, your_name, {channel_name}, "exception", {})
       ELSE /\ Step
            /\ slack' = [slack EXCEPT
                           ![NamedId(name)] =
                               [open |-> TRUE,
                                members |-> {slack_id(your_name)}
                                            \cup get_always_add_users,
                                msgs |-> <<>>]]
            /\ registered' = registered \cup {name}
            /\ last' = [Request(tool, your_name, channel_name) EXCEPT
                          !.result = "ok", !.channel = NamedId(name)]
            /\ UNCHANGED <<now, read_messages, channels, exported, export_failed>>

add_member_to_channel(your_name, member_to_add, channel_name) ==
    LET tool == "add_member_to_channel" IN
    /\ Live
    /\ IF ~agent_exists(your_name)
       THEN \* registry.get_agent(your_name) finds nothing
            Ends(tool, your_name, {member_to_add, channel_name}, "exception", {})
       ELSE IF member_to_add \notin get_all_agent_names
       THEN IF member_to_add \in get_human_names
            THEN Ends(tool, your_name, {member_to_add, channel_name}, "can't add humans", {})
            ELSE Ends(tool, your_name, {member_to_add, channel_name}, "member does not exist",
                      get_all_agent_names)
       ELSE IF ~channel_registered(registered, channel_name)
       THEN \* registry.get_channel(channel_name) finds nothing
            Ends(tool, your_name, {member_to_add, channel_name}, "exception", {})
       ELSE LET channel_id == NamedId(channel_name) IN
            \* the backend lets only a member invite
            /\ Step
            /\ slack' = IF slack_id(your_name) \in slack[channel_id].members
                        THEN [slack EXCEPT ![channel_id].members =
                                              @ \cup {slack_id(member_to_add)}]
                        ELSE slack
            /\ last' = [Request(tool, your_name, channel_name) EXCEPT
                          !.result = "ok", !.channel = channel_id]
            /\ UNCHANGED <<now, registered, read_messages, channels, exported,
                           export_failed>>

\* a request that no branch handles: a name that is no key of self.tools, or
\* a key that no branch of the chain tests for
unknown_tool(tool_name) ==
    /\ ~Handled(tool_name)
    /\ Ends(tool_name, "none", {}, Dispatch(tool_name), {})

---------------------------------------------------------------------------
(* The backend and the clock move on their own *)

\* a workspace admin removes an agent from a named channel
remove_member(channel_id, user) ==
    /\ Step
    /\ ~IsDM(channel_id)
    /\ slack[channel_id].open
    /\ user \in slack[channel_id].members
    /\ slack' = [slack EXCEPT ![channel_id].members = @ \ {user}]
    /\ last' = Request("backend", "none", "none")
    /\ UNCHANGED <<now, registered, read_messages, channels, exported, export_failed>>

Tick ==
    /\ Step
    /\ now' = now + 1
    /\ last' = Request("clock", "none", "none")
    /\ UNCHANGED <<slack, registered, read_messages, channels, exported, export_failed>>

Next ==
    \/ /\ Handled("send_direct_message")
       /\ \E a \in CallerNames, r \in RecipientNames, t \in Texts :
             send_direct_message(a, r, t)
    \/ /\ Handled("send_message_to_channel")
       /\ \E a \in CallerNames, c \in ChannelNameInputs, t \in Texts :
             send_message_to_channel(a, c, t)
    \/ /\ Handled("send_message_to_human")
       /\ \E a \in CallerNames, h \in HumanNames, t \in Texts :
             send_message_to_human(a, h, t)
    \/ /\ Handled("read_channel")
       /\ \E a \in CallerNames, c \in ChannelNameInputs : read_channel(a, c)
    \/ /\ Handled("read_dm")
       /\ \E a \in CallerNames, b \in CallerNames : read_dm(a, b)
    \/ /\ Handled("check_new_messages")
       /\ \E a \in CallerNames : check_new_messages(a)
    \/ /\ Handled("list_channels")
       /\ \E a \in CallerNames : list_channels_tool(a)
    \/ /\ Handled("get_human_info")
       /\ get_human_info
    \/ /\ Handled("create_channel")
       /\ \E a \in CallerNames, c \in {"Dev", "general"} : create_channel(a, c)
    \/ /\ Handled("add_member_to_channel")
       /\ \E a \in CallerNames, m \in {"bob", "ghost", "hana"}, c \in {"dev", "nochan"} :
             add_member_to_channel(a, m, c)
    \/ \E t \in ToolNameInputs : unknown_tool(t)
    \/ \E c \in NamedIds, u \in AgentIds : remove_member(c, u)
    \/ Tick

Spec == Init /\ [][Next]_vars

---------------------------------------------------------------------------
(* The claims *)

ReadTools == {"read_channel", "read_dm", "check_new_messages"}

\* what a request returns when it tells the caller to correct a name
StringPayloads ==
    {"agent does not exist", "sender does not exist", "use send_message_to_human",
     "channel doesn't exist", "your name is incorrect", "can't add humans",
     "member does not exist", "not a member"}

IsPrefix(s, t) == Len(s) <= Len(t) /\ SubSeq(t, 1, Len(s)) = s

NamesIn(chs) == {chs[i].name : i \in 1..Len(chs)}
IdsIn(chs) == {chs[i].slack_id : i \in 1..Len(chs)}

\* what update_channels reads of the backend for one agent
BackendView(agent_name, sl) ==
    [dms |-> check_ongoing_dms(agent_name, sl),
     listed |-> list_channels(agent_name, sl),
     members |-> [c \in DMIds |-> IF sl[c].open THEN sl[c].members ELSE {}]]

\* C1: no agent's ledger for any channel holds two messages equal in all
\* fields, whatever requests were made. The code breaks it: the messages to
\* append are filtered against the ledger as it was before the append, so two
\* equal messages of one list are both appended.
C1_NoDuplicateInLedger ==
    \A a \in Agents, c \in ChannelIds :
        \A i, j \in 1..Len(read_messages[a][c]) :
            i # j => read_messages[a][c][i] # read_messages[a][c][j]

\* the candidate lists of up to two messages (equal ones included) drawn from
\* what the backend holds of a channel and what the agent's ledger holds
CandidateLists(agent_name, channel_id) ==
    LET M == {Message(m.text, channel_id, m.user, SplitTs(m.ts),
                      get_agent_name_from_id(m.user)) :
                m \in SeqToSet(slack[channel_id].msgs)}
             \cup SeqToSet(read_messages[agent_name][channel_id])
    IN {<<>>} \cup {<<m>> : m \in M} \cup {<<m, n>> : m, n \in M}

\* the channels whose ledgers or backend messages the last request may have
\* changed: those it read or posted to (every channel before the first request)
TouchedChannels ==
    IF last.tool = NoOp.tool THEN ChannelIds
    ELSE (last.reads \cup {last.channel}) \cap ChannelIds

\* C2: dedup idempotence: for every agent, channel and candidate list,
\* only_show_new_messages followed by _update_agent_read_messages of its
\* result, done twice with the same list and nothing in between, gives an
\* empty list the second time (checked after every request for the channels
\* it touched, the only ones whose ledger or messages differ from before);
\* and so a check_new_messages that directly follows a check_new_messages of
\* the same agent finds every delta empty.
C2_DedupIdempotence ==
    /\ [](\A a \in Agents, c \in TouchedChannels :
            \A cand \in CandidateLists(a, c) :
               LET first == only_show_new_messages(read_messages, a, c, cand)
                   rm == update_agent_read_messages(read_messages, a, c, first)
               IN only_show_new_messages(rm, a, c, cand) = <<>>)
    /\ [][(/\ last.tool = "check_new_messages" /\ last.result = "ok"
           /\ last'.tool = "check_new_messages" /\ last'.result = "ok"
           /\ last'.caller = last.caller)
          => \A i \in 1..Len(last'.all_new_messages) :
                last'.all_new_messages[i] = <<>>
         ]_vars

\* C2 witness: a check_new_messages that read channels with messages and found
\* every delta empty
C2_Witness ==
    /\ last.tool = "check_new_messages" /\ last.result = "ok"
    /\ Len(last.all_new_messages) > 0
    /\ \A i \in 1..Len(last.all_new_messages) : last.all_new_messages[i] = <<>>

\* C3: world isolation: a backend message older than the start of the
\* caller's world is never delivered to the caller nor recorded in its ledger,
\* by read_channel, read_dm or check_new_messages. The code breaks it:
\* read_dm filters with the world start of the sender.
C3_WorldIsolation ==
    last.tool \in ReadTools =>
        \A r \in last.raw : FloatOfTs(r.ts) >= start_datetime(world_name(last.caller))

\* C4: ledger append-only: in every step, every ledger of before is a prefix
\* of the ledger of after.
C4_LedgerAppendOnly ==
    [][\A a \in Agents, c \in ChannelIds :
          IsPrefix(read_messages[a][c], read_messages'[a][c])]_vars

\* C4 witness: a check_new_messages appended backend messages to a ledger that
\* already held a message the agent sent
C4_Witness ==
    /\ last.tool = "check_new_messages" /\ last.result = "ok"
    /\ \E c \in last.reads :
         /\ Len(read_messages[last.caller][c]) >= 2
         /\ read_messages[last.caller][c][1].timestamp[1] = "float"
         /\ \E r \in last.raw : r.channel = c

\* C5: check_new_messages omits every channel without new messages: its
\* result never holds an empty list. The code breaks it: a channel is skipped
\* when nothing is left after the world filter, not when the delta is empty.
C5_NoEmptyEntry ==
    (last.tool = "check_new_messages" /\ last.result = "ok")
        => \A i \in 1..Len(last.all_new_messages) : last.all_new_messages[i] # <<>>

\* C6: self-visibility: once send_direct_message or send_message_to_human has
\* completed, the sender's ledger for the opened channel holds a message with
\* the text sent and the sender's name.
C6_SelfVisibility ==
    (last.tool \in {"send_direct_message", "send_message_to_human"}
     /\ last.result = "ok")
        => \E m \in SeqToSet(read_messages[last.caller][last.channel]) :
              m.message = last.text /\ m.agent_name = last.caller

\* C6 witness: the first request of a run is a completed send_direct_message
C6_Witness ==
    /\ last.tool = "send_direct_message" /\ last.result = "ok"
    /\ steps = 1
    /\ Len(read_messages[last.caller][last.channel]) = 1

\* C7: membership idempotence: when update_channels runs for an agent in two
\* requests in a row and the backend shows the agent the same conversations
\* with the same members both times, the channel list after the second run is
\* set-equal to the list after the first.
C7_MembershipIdempotence ==
    [][(/\ last.refreshed /\ last'.refreshed
        /\ last'.caller = last.caller
        /\ BackendView(last.caller, slack') = BackendView(last.caller, slack))
       => SeqToSet(channels'[last.caller]) = SeqToSet(channels[last.caller])
      ]_vars

\* C7 witness: a second check_new_messages in a row of an agent with a
\* non-empty channel list (every channel it read had been recorded already)
C7_Witness ==
    /\ last.tool = "check_new_messages" /\ last.refreshed
    /\ steps = 2
    /\ channels[last.caller] # <<>>
    /\ Len(last.all_new_messages) > 0
    /\ \A i \in 1..Len(last.all_new_messages) : last.all_new_messages[i] = <<>>

\* C8: a request that names a nonexistent agent, human or channel returns a
\* descriptive string and sends nothing. The code breaks it: read_channel,
\* send_message_to_human and add_member_to_channel look the name up in the
\* registry before any check.
C8_CallerCorrectable ==
    last.missing # {} => (last.result \in StringPayloads /\ last.sent = {})

\* C9: send_message_to_channel with a name that is not among the names of the
\* sender's channel list returns the guidance with the sender's channel names,
\* sends nothing, does not refresh the list and leaves the ledgers unchanged.
C9_UnknownChannelGuidance ==
    [][(/\ last'.tool = "send_message_to_channel"
        /\ last'.caller \in Agents
        /\ last'.arg \notin NamesIn(channels[last'.caller]))
       => /\ last'.result = "channel doesn't exist"
          /\ last'.names = NamesIn(channels[last'.caller])
          /\ last'.sent = {}
          /\ ~last'.refreshed
          /\ slack' = slack
          /\ channels' = channels
          /\ read_messages' = read_messages
      ]_vars

\* C9 witness: the guidance was returned with a non-empty list of names
C9_Witness ==
    /\ last.tool = "send_message_to_channel"
    /\ last.result = "channel doesn't exist"
    /\ last.names # {}
    /\ last.names = NamesIn(channels[last.caller])

\* C10: check_new_messages reads and records only channels of the freshly
\* resolved list whose backend member set holds the agent: for any other
\* channel no read is issued, nothing is delivered and the ledger is unchanged.
C10_OnlyMemberChannels ==
    [][(last'.tool = "check_new_messages" /\ last'.caller \in Agents)
       => \A c \in ChannelIds :
            (\/ c \notin IdsIn(channels'[last'.caller])
             \/ slack_id(last'.caller) \notin slack'[c].members)
            => /\ c \notin last'.reads
               /\ read_messages'[last'.caller][c] = read_messages[last'.caller][c]
               /\ \A r \in last'.raw : r.channel # c
               /\ \A i \in 1..Len(last'.all_new_messages) :
                    \A m \in SeqToSet(last'.all_new_messages[i]) : m.channel_id # c
      ]_vars

\* C10 witness: check_new_messages left out a listed channel with messages
\* that the agent is not a member of
C10_Witness ==
    /\ last.tool = "check_new_messages" /\ last.result = "ok"
    /\ \E c \in IdsIn(channels[last.caller]) :
         /\ slack_id(last.caller) \notin slack[c].members
         /\ Len(slack[c].msgs) > 0
         /\ c \notin last.reads

\* C11: when the backend read returns no message, read_channel and read_dm
\* both return "You are not a member of this channel, you can't read it."
\* and leave the ledgers unchanged. The code breaks it for read_dm, which has
\* no such check: it returns the empty list.
C11_EmptyReadNotMember ==
    [][(last'.tool \in {"read_channel", "read_dm"} /\ last'.empty_read)
       => (last'.result = "not a member" /\ read_messages' = read_messages)
      ]_vars

\* C12: after every request, ended normally or by a failure of the export,
\* the last exported snapshot of each agent equals its ledger. The code
\* breaks it: the ledger is extended before the export is attempted, and a
\* failed export leaves the ledger ahead of the snapshot.
C12_ExportedEqualsLedger ==
    \A a \in Agents : exported[a] = read_messages[a]

\* C13: a request whose tool name is no key of the tool table ends with the
\* 404 and changes nothing; a request whose tool name is a key is handled by
\* exactly one branch of the chain and never ends in the "Tool execution
\* failed" raise behind the chain.
C13_DispatchTotal ==
    [][last'.tool \in ToolNameInputs
       => IF last'.tool \notin ToolNames
          THEN /\ last'.result = "HTTP 404"
               /\ UNCHANGED <<now, slack, registered, read_messages, channels,
                              exported, export_failed>>
          ELSE /\ Cardinality({i \in DOMAIN Branches : Branches[i] = last'.tool}) = 1
               /\ last'.result # "HTTP 400 Tool execution failed"
      ]_vars

\* C13 witness: check_ongoing_dms, which has a branch in the chain and is no
\* key of the tool table, was asked for and answered with the 404
C13_Witness ==
    /\ last.tool = "check_ongoing_dms"
    /\ last.result = "HTTP 404"
    /\ last.tool \in SeqToSet(Branches)

\* the candidate lists of up to three messages
CandidateLists3(agent_name, channel_id) ==
    LET M == {Message(m.text, channel_id, m.user, SplitTs(m.ts),
                      get_agent_name_from_id(m.user)) :
                m \in SeqToSet(slack[channel_id].msgs)}
             \cup SeqToSet(read_messages[agent_name][channel_id])
    IN CandidateLists(agent_name, channel_id)
       \cup {<<m, n, o>> : m, n, o \in M}

\* the i-th smallest member of a set of indices
NthIndex(I, i) == CHOOSE k \in I : Cardinality({j \in I : j < k}) = i - 1

\* C14: only_show_new_messages returns exactly the candidates that equal no
\* message of the agent's ledger for the channel, in the order they have in
\* the candidate list; against an empty ledger it returns the list unchanged.
C14_DeltaIsOrderedFilter ==
    \A a \in Agents, c \in TouchedChannels :
        \A cand \in CandidateLists3(a, c) :
            LET new_messages == only_show_new_messages(read_messages, a, c, cand)
                ledger == SeqToSet(read_messages[a][c])
                I == {i \in 1..Len(cand) : cand[i] \notin ledger}
            IN /\ Len(new_messages) = Cardinality(I)
               /\ \A i \in 1..Len(new_messages) :
                     new_messages[i] = cand[NthIndex(I, i)]
               /\ read_messages[a][c] = <<>> => new_messages = cand

\* C14 witness: a check_new_messages returned a non-empty delta for a channel
\* whose ledger already held messages read from the backend, which it left out
C14_Witness ==
    /\ last.tool = "check_new_messages" /\ last.result = "ok"
    /\ \E i \in 1..Len(last.all_new_messages) :
         LET new_messages == last.all_new_messages[i]
         IN /\ new_messages # <<>>
            /\ LET ledger == read_messages[last.caller][new_messages[1].channel_id]
               IN /\ Len(ledger) > Len(new_messages)
                  /\ ledger[1].timestamp[1] = "str"
                  /\ ledger[1] \notin SeqToSet(new_messages)

\* C15: two check_new_messages of one agent that are in flight together leave
\* no duplicate in the ledgers of the channels they read, and no backend
\* message is returned as new by both. call_tool is a coroutine without a
\* suspension point, so the event loop runs the two one after the other and
\* the interleavings are the serial orders: two requests in a row. The code
\* breaks the first half: the first of the two appends equal messages of one
\* candidate list twice.
C15_ConcurrentReadsNoDuplicate ==
    [][(/\ last.tool = "check_new_messages" /\ last.result = "ok"
        /\ last'.tool = "check_new_messages" /\ last'.result = "ok"
        /\ last'.caller = last.caller)
       => /\ \A c \in last.reads \cup last'.reads :
               \A i, j \in 1..Len(read_messages'[last'.caller][c]) :
                   i # j => read_messages'[last'.caller][c][i]
                               # read_messages'[last'.caller][c][j]
          /\ last.raw \cap last'.raw = {}
      ]_vars

\* C16: agent isolation: a request made with your_name = A leaves the ledger
\* and the channel list of every other agent as they were, the recipient of
\* a direct message and the sender named in read_dm included.
C16_AgentIsolation ==
    [][\A b \in Agents :
          b # last'.caller => /\ read_messages'[b] = read_messages[b]
                              /\ channels'[b] = channels[b]
      ]_vars

\* C16 witness: alice sent bob a direct message: her ledger and channel list
\* hold it, bob's are empty
C16_Witness ==
    /\ last.tool = "send_direct_message" /\ last.result = "ok"
    /\ last.caller = "alice" /\ last.arg = "bob"
    /\ read_messages["alice"][last.channel] # <<>>
    /\ channels["alice"] # <<>>
    /\ read_messages["bob"][last.channel] = <<>>
    /\ channels["bob"] = <<>>

\* C17: after update_channels the agent's channel list holds each channel id
\* at most once, and an id the backend reports both as an ongoing DM and as a
\* named channel is in the list once, as the DM record: its name is the
\* member identities without the always-added ones, joined by commas.
C17_ChannelIdsUnique ==
    [][(last'.refreshed /\ last'.caller \in Agents)
       => LET chs == channels'[last'.caller]
              dms == SeqToSet(check_ongoing_dms(last'.caller, slack'))
              listed == SeqToSet(list_channels(last'.caller, slack'))
          IN /\ \A i, j \in 1..Len(chs) : i # j => chs[i].slack_id # chs[j].slack_id
             /\ \A c \in dms \cap listed :
                   /\ Cardinality({i \in 1..Len(chs) : chs[i].slack_id = c}) = 1
                   /\ \A i \in 1..Len(chs) :
                        chs[i].slack_id = c
                        => chs[i].name =
                             Join(SelectSeq(IdOrder,
                                    LAMBDA u : u \in slack'[c].members \ HumanIds))
      ]_vars

\* C17 witness: alice's list was refreshed while the backend reported her
\* conversation with bob both as an ongoing DM and as a named channel: the
\* list holds it once, named after the two agents
C17_Witness ==
    /\ last.refreshed /\ last.caller = "alice"
    /\ "D_ab" \in SeqToSet(check_ongoing_dms("alice", slack))
    /\ "D_ab" \in SeqToSet(list_channels("alice", slack))
    /\ Cardinality({i \in 1..Len(channels["alice"]) :
                      channels["alice"][i].slack_id = "D_ab"}) = 1
    /\ \E i \in 1..Len(channels["alice"]) :
         channels["alice"][i] = Channel("D_ab", "U1,U2")

\* C18: whenever send_message_to_channel sends a message, the channel id it
\* sends to, and records the message under, is the id of the channel of that
\* name in the sender's channel list, also when display names collide. The
\* code breaks it: the name is looked for in the sender's list, the id is
\* then taken from the registry's channel of that name.
C18_SendsToListedChannel ==
    [][(last'.tool = "send_message_to_channel" /\ last'.sent # {})
       => \E i \in 1..Len(channels[last'.caller]) :
             /\ channels[last'.caller][i].slack_id = last'.channel
             /\ channels[last'.caller][i].name = last'.arg
      ]_vars

\* the ongoing DMs of an agent whose members, the humans aside, are exactly
\* the sender and the receiver of a read_dm
ExactDMs(your_name, sender_name, sl) ==
    SelectSeq(check_ongoing_dms(your_name, sl),
              LAMBDA c : sl[c].members \ HumanIds
                            = {slack_id(sender_name), slack_id(your_name)})

\* C19: the channel read_dm reads is the first of the caller's ongoing DMs, in
\* the backend's order, whose members are exactly the sender, the receiver and
\* the humans present; when read_dm reads no channel and fails, the ledgers
\* are unchanged. The code breaks the first half: it tests the number of
\* members and that sender and receiver are among them.
C19_ReadDmExactChannel ==
    [][last'.tool = "read_dm"
       => IF last'.channel # NoChannel
          THEN LET exact == ExactDMs(last'.caller, last'.arg, slack)
               IN exact # <<>> /\ last'.channel = Head(exact)
          ELSE read_messages' = read_messages
      ]_vars

\* the Message check_new_messages and read_dm make of a backend record
CheckMessage(c, r) ==
    Message(r.text, c, r.user, SplitTs(r.ts), get_agent_name_from_id(r.user))
DmMessage(c, r) ==
    Message(r.text, c, r.user, SplitTs(r.ts), resolved_name(r.user))

EmptyLedger == [a \in Agents |-> [c \in ChannelIds |-> <<>>]]

\* with m1 alone recorded for the agent and the channel, m2 is appended to
\* the ledger by _update_agent_read_messages
AppendedAsNew(a, c, m1, m2) ==
    LET rm == update_agent_read_messages(EmptyLedger, a, c, <<m1>>)
    IN update_agent_read_messages(rm, a, c, <<m2>>)[a][c] = <<m1, m2>>

\* with m1 alone recorded, m2 is returned by only_show_new_messages
ReturnedAsNew(a, c, m1, m2) ==
    LET rm == update_agent_read_messages(EmptyLedger, a, c, <<m1>>)
    IN only_show_new_messages(rm, a, c, <<m2>>) = <<m2>>

\* the pairs of backend records of a channel with the same sender and body
\* and different backend timestamps
SameButTimestamp(c) ==
    {p \in SeqToSet(slack[c].msgs) \X SeqToSet(slack[c].msgs) :
        p[1].user = p[2].user /\ p[1].text = p[2].text /\ p[1].ts # p[2].ts}

window_start(tool, your_name, arg) ==
    IF tool = "read_dm" THEN read_dm_world_start(your_name, arg)
    ELSE start_datetime(world_name(your_name))

\* C21: a backend message whose timestamp is exactly the world start is left
\* out when a named channel is read (read_channel, check_new_messages) and
\* is let in when a direct conversation is read (read_dm, check_new_messages:
\* returned, or recorded before). Violated: check_new_messages filters named
\* channels with >= as well.
C21_WorldWindowBoundary ==
    [][(last'.tool \in ReadTools /\ last'.result = "ok")
       => \A c \in last'.reads :
             LET response == read(slack, last'.caller, c)
                 start == window_start(last'.tool, last'.caller, last'.arg)
             IN \A i \in 1..Len(response) :
                   FloatOfTs(response[i].ts) = start
                   => IF IsDM(c)
                      THEN \/ Delivered(c, response[i]) \in last'.raw
                           \/ /\ last'.tool = "check_new_messages"
                              /\ CheckMessage(c, response[i])
                                    \in SeqToSet(read_messages[last'.caller][c])
                      ELSE Delivered(c, response[i]) \notin last'.raw
      ]_vars

\* the messages a read produced: the list read_channel and read_dm return,
\* the lists check_new_messages returns
produced_messages(req) ==
    SeqToSet(req.messages)
    \cup UNION {SeqToSet(req.all_new_messages[i]) : i \in 1..Len(req.all_new_messages)}

\* C22: every message read_channel, read_dm and check_new_messages produce
\* names its sender by the agent's name when the sender identity is an
\* agent's backend identity and by the human's name otherwise, so that a
\* backend message is named alike by all three. Violated: read_channel and
\* read_dm look the backend identity up among the agent names, and
\* check_new_messages never asks for a human's name.
C22_SenderNameResolution ==
    /\ (last.tool \in ReadTools /\ last.result = "ok")
       => \A m \in produced_messages(last) :
             m.agent_name = IF m.user_id \in AgentIds
                            THEN get_agent_name_from_id(m.user_id)
                            ELSE get_human_name_from_id(m.user_id)
    /\ \A c \in ChannelIds : \A r \in SeqToSet(slack[c].msgs) :
          CheckMessage(c, r).agent_name = DmMessage(c, r).agent_name

\* the ledger entry m stands for the backend record r of channel c: the
\* body and the sender of r, and the time of r as a send (time.time()),
\* read_channel (the raw string) or read_dm and check_new_messages (the
\* whole seconds) write it
stands_for(m, c, r) ==
    /\ m.message = r.text
    /\ m.channel_id = c
    /\ m.user_id \in {r.user, get_agent_name_from_id(r.user)}
    /\ m.timestamp \in {TimeTime(r.ts), RawTs(r.ts), SplitTs(r.ts)}

\* how many entries of a ledger stand for r
entries_for(ledger, c, r) ==
    Cardinality({i \in 1..Len(ledger) : stands_for(ledger[i], c, r)})

\* C23: a backend message the agent has in its ledger, having sent it or
\* having read it with read_channel or read_dm, is not returned as new by a
\* later check_new_messages of the agent and gets no second ledger entry.
\* Violated: a send records time.time() and read_channel the raw timestamp
\* where check_new_messages compares whole seconds; read_dm names the sender
\* otherwise.
C23_NoRedelivery ==
    [][last'.tool = "check_new_messages"
       => \A c \in last'.reads :
             LET before == read_messages[last'.caller][c]
                 after == read_messages'[last'.caller][c]
             IN \A r \in SeqToSet(read(slack, last'.caller, c)) :
                   entries_for(before, c, r) > 0
                   => /\ Delivered(c, r) \notin last'.raw
                      /\ entries_for(after, c, r) = entries_for(before, c, r)
      ]_vars

---------------------------------------------------------------------------
(* Agents that keep polling *)

\* an agent's poll loop: check_new_messages called again and again, however
\* many other requests the run has
keeps_calling(your_name) ==
    /\ check_new_messages_run(your_name)
    /\ UNCHANGED steps

\* who writes to whom while the agents poll
Writers == {"alice"}
Readers == {"bob", "carol"}

LiveNext ==
    \/ /\ Handled("send_direct_message")
       /\ \E a \in Writers, r \in Readers, t \in Texts : send_direct_message(a, r, t)
    \/ /\ Handled("check_new_messages")
       /\ \E a \in Readers : keeps_calling(a)

\* every reader's poll loop goes on: each request is served by the event loop
LiveSpec ==
    /\ Init
    /\ [][LiveNext]_vars
    /\ \A a \in Readers : WF_vars(Handled("check_new_messages") /\ keeps_calling(a))

\* the backend's clock at the sends of a run
PostTimes == (StartW2 + 1)..(StartW2 + MaxSteps)

\* another participant has just posted r to the conversation c the agent is
\* a backend member of, at or after the start of the agent's world
just_posted(agent, c, r) ==
    /\ last.tool = "send_direct_message" /\ last.sent = {c}
    /\ last.caller # agent /\ r.user = slack_id(last.caller)
    /\ slack[c].open /\ slack_id(agent) \in slack[c].members
    /\ Len(slack[c].msgs) > 0 /\ slack[c].msgs[Len(slack[c].msgs)] = r
    /\ r.ts = now - 1
    /\ FloatOfTs(r.ts) >= start_datetime(world_name(agent))

\* a check_new_messages of the agent returns r
returned_to(agent, c, r) ==
    /\ last.tool = "check_new_messages" /\ last.caller = agent
    /\ last.result = "ok"
    /\ Delivered(c, r) \in last.raw

\* C24: while an agent stays a member of a conversation and keeps calling
\* check_new_messages, every message another participant posts there at or
\* after the agent's world start is returned by some check_new_messages of
\* the agent, unless an export of the run failed. Violated: a message with the
\* sender, the body and the whole second of one the agent has been given
\* equals it as a candidate and is never returned.
C24_EventualDelivery ==
    \A w \in Writers : \A agent \in Readers : \A t \in Texts : \A ts \in PostTimes :
        just_posted(agent, open_conversation(w, {slack_id(agent)}),
                    RawMessage(slack_id(w), t, ts))
        ~> (\/ returned_to(agent, open_conversation(w, {slack_id(agent)}),
                           RawMessage(slack_id(w), t, ts))
            \/ export_failed)

====
